---- MODULE Spec2Model ----
(***************************************************************************)
(* friends_bets: a binary prediction-market escrow (Anchor program).       *)
(* One market (the PDA of one creator and one mint), its vault token       *)
(* account, the positions of the users (one PDA per user) and the users'   *)
(* token accounts.  Every instruction is one atomic step; an instruction   *)
(* that returns Err leaves every account as it was (the transaction is     *)
(* discarded), and `last` records the instruction just executed and its    *)
(* result.                                                                 *)
(***************************************************************************)
EXTENDS Integers, FiniteSets, Sequences, TLC

\* ---------------------------------------------------------------- bounds
\* Width of the u64 counters, scaled down so that the checked_add paths can
\* be reached; the double-width intermediate (u128) has twice this width.
U64Bits == 12
\* The clock runs from 0 to MaxTs + 1; end_ts and resolve_deadline_ts are
\* drawn from 0 .. MaxTs.
MaxTs == 2
\* Tokens every user holds at the start (Spec).
InitBalance == 6

\* ------------------------------------------------------ program constants
MAX_FEE_BPS == 2000
MAX_TITLE_LEN == 64
BPS_DENOMINATOR == 10000

U64_MAX == 2^U64Bits - 1
U128_MAX == 2^(2 * U64Bits) - 1
ClockMax == MaxTs + 1

Users == {"alice", "bob"}
BetSide == {"A", "B"}
MarketStatus == {"Open", "PendingResolve", "Resolved", "Cancelled"}
NoSide == "None"
NoUser == "nobody"

\* Inputs of the instructions.
FeeChoices == {0, MAX_FEE_BPS, MAX_FEE_BPS + 1}
TitleLens == {MAX_TITLE_LEN, MAX_TITLE_LEN + 1}
Timestamps == 0 .. MaxTs
BetAmounts == {0, 3, 6}
Creators == {"alice"}

\* now: the clock oracle; market, position: the program's accounts; balance,
\* vault: the token accounts of the users and of the market; paid_out: the
\* tokens the vault has transferred out so far (history); last: the
\* instruction just executed and its result.
VARIABLES now, market, position, balance, vault, paid_out, last

vars == <<now, market, position, balance, vault, paid_out, last>>

\* ------------------------------------------------------------- accounts
\* The market account before initialize_market has created it.
NoMarket ==
    [exists |-> FALSE, creator |-> NoUser, fee_bps |-> 0, end_ts |-> 0,
     resolve_deadline_ts |-> 0, staked_a |-> 0, staked_b |-> 0,
     status |-> "Open", outcome |-> NoSide, creator_fee_withdrawn |-> FALSE,
     title_len |-> 0]

\* A position account that init_if_needed has just created (all zero).
NoPosition ==
    [exists |-> FALSE, owner |-> NoUser, side |-> "A", amount |-> 0,
     claimed |-> FALSE]

\* The accounts an instruction reads and writes.
Accounts(m, p, b, v) == [market |-> m, position |-> p, balance |-> b, vault |-> v]

Cur == Accounts(market, position, balance, vault)

\* The record of the instruction just executed.
Call(op, u) == [op |-> op, user |-> u, result |-> "Ok", paid |-> 0]

\* An instruction that returned Ok(()): the accounts as it wrote them.
Commit(cur, paid) == [result |-> "Ok", st |-> cur, paid |-> paid]

\* An instruction that returned Err(e): `pre` are the accounts before the
\* instruction and `cur` the accounts as far as it had written them; the
\* failed transaction is discarded, so the accounts are `pre` again.
AbortKeepsWrites(pre, cur, e) == [result |-> e, st |-> cur, paid |-> 0]

Abort(pre, cur, e) == [result |-> e, st |-> pre, paid |-> 0]

\* --------------------------------------------------------- token ledger
\* token::transfer from a user's token account to the vault.
TransferToVault(st, u, amount) ==
    [st EXCEPT !.balance[u] = @ - amount, !.vault = @ + amount]

\* token::transfer from the vault to a user's token account.
TransferFromVault(st, u, amount) ==
    [st EXCEPT !.balance[u] = @ + amount, !.vault = @ - amount]

\* ----------------------------------------------------- initialize_market
\* initialize_market without the check of the deadline against end_ts.
initialize_market_require_NoDeadlineCheck(t, fee_bps, end_ts, resolve_deadline_ts, title_len) ==
    IF ~(fee_bps <= MAX_FEE_BPS) THEN "FeeTooHigh"
    ELSE IF ~(title_len <= MAX_TITLE_LEN) THEN "TitleTooLong"
    ELSE IF ~(end_ts > t) THEN "EndTimeInPast"
    ELSE "Ok"

\* The require! section of initialize_market.
initialize_market_require(t, fee_bps, end_ts, resolve_deadline_ts, title_len) ==
    IF ~(fee_bps <= MAX_FEE_BPS) THEN "FeeTooHigh"
    ELSE IF ~(title_len <= MAX_TITLE_LEN) THEN "TitleTooLong"
    ELSE IF ~(end_ts > t) THEN "EndTimeInPast"
    ELSE IF ~(resolve_deadline_ts > end_ts) THEN "InvalidDeadline"
    ELSE "Ok"

initialize_market(st, t, u, fee_bps, end_ts, resolve_deadline_ts, title_len) ==
    LET e == initialize_market_require(t, fee_bps, end_ts,
                                       resolve_deadline_ts, title_len)
    IN  IF e # "Ok" THEN Abort(st, st, e)
        ELSE Commit([st EXCEPT !.market =
                    [exists |-> TRUE, creator |-> u, fee_bps |-> fee_bps,
                     end_ts |-> end_ts,
                     resolve_deadline_ts |-> resolve_deadline_ts,
                     staked_a |-> 0, staked_b |-> 0, status |-> "Open",
                     outcome |-> NoSide, creator_fee_withdrawn |-> FALSE,
                     title_len |-> title_len]], 0)

\* ------------------------------------------------------------- place_bet
\* place_bet that credits the stake to the other side's aggregate.
StakeAfterBet_OtherSide(m, side, amount) ==
    IF side = "A" THEN [m EXCEPT !.staked_b = @ + amount]
    ELSE [m EXCEPT !.staked_a = @ + amount]

\* The checked_add of the chosen side's aggregate.
StakeAfterBet(m, side, amount) ==
    IF side = "A" THEN [m EXCEPT !.staked_a = @ + amount]
    ELSE [m EXCEPT !.staked_b = @ + amount]

\* place_bet that still accepts bets once end_ts has been reached.
place_bet_require_NoEndCheck(m, t, amount) ==
    IF m.status # "Open" THEN "MarketNotOpen"
    ELSE IF ~(amount > 0) THEN "InvalidAmount"
    ELSE "Ok"

\* The require! section of place_bet.
place_bet_require(m, t, amount) ==
    IF m.status # "Open" THEN "MarketNotOpen"
    ELSE IF ~(t < m.end_ts) THEN "BettingClosed"
    ELSE IF ~(amount > 0) THEN "InvalidAmount"
    ELSE "Ok"

place_bet(st, t, u, side, amount) ==
    LET m  == st.market
        p  == st.position[u]
        s1 == TransferToVault(st, u, amount)
        m2 == StakeAfterBet(m, side, amount)
        s2 == [s1 EXCEPT !.market = m2]
        p3 == [exists |-> TRUE, owner |-> u, side |-> side,
               amount |-> p.amount + amount, claimed |-> FALSE]
        s3 == [s2 EXCEPT !.position[u] = p3]
    IN  IF ~m.exists THEN Abort(st, st, "AccountNotInitialized")
        ELSE IF place_bet_require(m, t, amount) # "Ok"
             THEN Abort(st, st, place_bet_require(m, t, amount))
        ELSE IF st.balance[u] < amount THEN Abort(st, st, "InsufficientFunds")
        ELSE IF m2.staked_a > U64_MAX \/ m2.staked_b > U64_MAX
             THEN Abort(st, s1, "Overflow")
        ELSE IF p3.amount > U64_MAX THEN Abort(st, s2, "Overflow")
        ELSE Commit(s3, amount)

\* --------------------------------------------------------- close_betting
\* close_betting without its status guard.
close_betting_require_NoStatusGuard(m, t) ==
    IF ~(t >= m.end_ts) THEN "BettingNotEnded" ELSE "Ok"

\* close_betting that is still refused at end_ts itself.
close_betting_require_AfterEnd(m, t) ==
    IF m.status # "Open" THEN "MarketNotOpen"
    ELSE IF ~(t > m.end_ts) THEN "BettingNotEnded"
    ELSE "Ok"

\* The require! section of close_betting.
close_betting_require(m, t) ==
    IF m.status # "Open" THEN "MarketNotOpen"
    ELSE IF ~(t >= m.end_ts) THEN "BettingNotEnded"
    ELSE "Ok"

close_betting(st, t) ==
    LET m == st.market
    IN  IF ~m.exists THEN Abort(st, st, "AccountNotInitialized")
        ELSE IF close_betting_require(m, t) # "Ok"
             THEN Abort(st, st, close_betting_require(m, t))
        ELSE Commit([st EXCEPT !.market.status = "PendingResolve"], 0)

\* --------------------------------------------------------------- resolve
\* The Resolve accounts: constraint = market.creator == creator.key().
ResolveAccountsOk(m, u) == m.creator = u

\* resolve that is still accepted at the deadline itself.
resolve_require_AtDeadline(m, t, u) ==
    IF m.status # "PendingResolve" THEN "MarketNotPendingResolve"
    ELSE IF ~(u = m.creator) THEN "UnauthorizedResolver"
    ELSE IF ~(t <= m.resolve_deadline_ts) THEN "ResolutionDeadlinePassed"
    ELSE "Ok"

\* The require! section of resolve.
resolve_require(m, t, u) ==
    IF m.status # "PendingResolve" THEN "MarketNotPendingResolve"
    ELSE IF ~(u = m.creator) THEN "UnauthorizedResolver"
    ELSE IF ~(t < m.resolve_deadline_ts) THEN "ResolutionDeadlinePassed"
    ELSE "Ok"

\* resolve that sets the status and forgets the outcome.
resolve_write_NoOutcome(m, outcome) == [m EXCEPT !.status = "Resolved"]

\* The writes of resolve.
resolve_write(m, outcome) ==
    [m EXCEPT !.status = "Resolved", !.outcome = outcome]

resolve(st, t, u, outcome) ==
    LET m == st.market
    IN  IF ~m.exists THEN Abort(st, st, "AccountNotInitialized")
        ELSE IF ~ResolveAccountsOk(m, u) THEN Abort(st, st, "ConstraintRaw")
        ELSE IF resolve_require(m, t, u) # "Ok"
             THEN Abort(st, st, resolve_require(m, t, u))
        ELSE Commit([st EXCEPT !.market = resolve_write(m, outcome)], 0)

\* -------------------------------------------------------- cancel_expired
\* cancel_expired that is still refused at the deadline itself.
cancel_expired_require_AfterDeadline(m, t) ==
    IF m.status # "PendingResolve" THEN "MarketNotPendingResolve"
    ELSE IF ~(t > m.resolve_deadline_ts) THEN "ResolutionNotExpired"
    ELSE "Ok"

\* The require! section of cancel_expired.
cancel_expired_require(m, t) ==
    IF m.status # "PendingResolve" THEN "MarketNotPendingResolve"
    ELSE IF ~(t >= m.resolve_deadline_ts) THEN "ResolutionNotExpired"
    ELSE "Ok"

cancel_expired(st, t) ==
    LET m == st.market
    IN  IF ~m.exists THEN Abort(st, st, "AccountNotInitialized")
        ELSE IF cancel_expired_require(m, t) # "Ok"
             THEN Abort(st, st, cancel_expired_require(m, t))
        ELSE Commit([st EXCEPT !.market.status = "Cancelled"], 0)

\* ------------------------------------------------------------ arithmetic
\* `x as u64`: the low 64 bits.
AsU64(x) == x % (U64_MAX + 1)

\* A computed value, or the error that ended the computation.
Val(x) == [result |-> "Ok", val |-> x]
Err(e) == [result |-> e, val |-> 0]

\* staked_a.checked_add(staked_b)
TotalStaked(m) ==
    IF m.staked_a + m.staked_b > U64_MAX THEN Err("Overflow")
    ELSE Val(m.staked_a + m.staked_b)

\* (total as u128).checked_mul(fee_bps as u128)?.checked_div(10_000)? as u64
FeeAmount(total, fee_bps) ==
    IF total * fee_bps > U128_MAX THEN Err("Overflow")
    ELSE Val(AsU64((total * fee_bps) \div BPS_DENOMINATOR))

\* The winning branch of claim: the pro-rata share of the distributable pool.
WinningPayout(m, amount) ==
    LET total == TotalStaked(m)
        fee == FeeAmount(total.val, m.fee_bps)
        distributable == total.val - fee.val
        winning_side_total ==
            IF m.outcome = "A" THEN m.staked_a ELSE m.staked_b
    IN  IF total.result # "Ok" THEN total
        ELSE IF fee.result # "Ok" THEN fee
        ELSE IF distributable < 0 THEN Err("Underflow")
        ELSE IF winning_side_total = 0 THEN Val(0)
        ELSE IF distributable * amount > U128_MAX THEN Err("Overflow")
        ELSE Val(AsU64((distributable * amount) \div winning_side_total))

\* A refund that deducts the creator fee from the stake of a cancelled market.
Payout_FeeOnRefund(m, p) ==
    IF m.status = "Cancelled"
    THEN Val(p.amount - (p.amount * m.fee_bps) \div BPS_DENOMINATOR)
    ELSE IF p.side # m.outcome THEN Val(0)
    ELSE WinningPayout(m, p.amount)

\* The payout claim computes for position p of market m.
Payout(m, p) ==
    IF m.status = "Cancelled" THEN Val(p.amount)
    ELSE IF p.side # m.outcome THEN Val(0)
    ELSE WinningPayout(m, p.amount)

\* ----------------------------------------------------------------- claim
\* The Claim accounts: the position account is the PDA of (market, user),
\* so a signer can only pass their own position, and it must exist.
\* claim without its AlreadyClaimed guard.
claim_require_NoClaimedGuard(m, p, u) ==
    IF ~(m.status = "Resolved" \/ m.status = "Cancelled")
    THEN "MarketNotFinalized"
    ELSE IF ~(p.owner = u) THEN "UnauthorizedClaim"
    ELSE "Ok"

\* The require! section of claim.
claim_require(m, p, u) ==
    IF ~(m.status = "Resolved" \/ m.status = "Cancelled")
    THEN "MarketNotFinalized"
    ELSE IF p.claimed THEN "AlreadyClaimed"
    ELSE IF ~(p.owner = u) THEN "UnauthorizedClaim"
    ELSE "Ok"

claim(st, t, u, q) ==
    LET m == st.market
        p == st.position[q]
        payout == Payout(m, p)
        s1 == IF payout.val > 0 THEN TransferFromVault(st, u, payout.val)
              ELSE st
        s2 == [s1 EXCEPT !.position[q].claimed = TRUE]
    IN  IF ~m.exists \/ ~p.exists THEN Abort(st, st, "AccountNotInitialized")
        ELSE IF q # u THEN Abort(st, st, "ConstraintSeeds")
        ELSE IF claim_require(m, p, u) # "Ok"
             THEN Abort(st, st, claim_require(m, p, u))
        ELSE IF payout.result # "Ok" THEN Abort(st, st, payout.result)
        ELSE IF payout.val > 0 /\ st.vault < payout.val
             THEN Abort(st, st, "InsufficientFunds")
        ELSE Commit(s2, payout.val)

\* -------------------------------------------------- withdraw_creator_fee
\* The WithdrawCreatorFee accounts: constraint = market.creator == creator.key().
WithdrawAccountsOk(m, u) == m.creator = u

\* The require! section of withdraw_creator_fee.
withdraw_creator_fee_require(m, u) ==
    IF m.status # "Resolved" THEN "MarketNotResolved"
    ELSE IF ~(u = m.creator) THEN "UnauthorizedWithdrawal"
    ELSE IF m.creator_fee_withdrawn THEN "FeeAlreadyWithdrawn"
    ELSE "Ok"

withdraw_creator_fee(st, t, u) ==
    LET m == st.market
        total == TotalStaked(m)
        fee == FeeAmount(total.val, m.fee_bps)
        s1 == IF fee.val > 0 THEN TransferFromVault(st, u, fee.val) ELSE st
        s2 == [s1 EXCEPT !.market.creator_fee_withdrawn = TRUE]
    IN  IF ~m.exists THEN Abort(st, st, "AccountNotInitialized")
        ELSE IF ~WithdrawAccountsOk(m, u) THEN Abort(st, st, "ConstraintRaw")
        ELSE IF withdraw_creator_fee_require(m, u) # "Ok"
             THEN Abort(st, st, withdraw_creator_fee_require(m, u))
        ELSE IF total.result # "Ok" THEN Abort(st, st, total.result)
        ELSE IF fee.result # "Ok" THEN Abort(st, st, fee.result)
        ELSE IF fee.val > 0 /\ st.vault < fee.val
             THEN Abort(st, st, "InsufficientFunds")
        ELSE Commit(s2, fee.val)

\* ---------------------------------------------------------------- state
Init ==
    /\ now = 0
    /\ market = NoMarket
    /\ position = [u \in Users |-> NoPosition]
    /\ balance = [u \in Users |-> InitBalance]
    /\ vault = 0
    /\ paid_out = 0
    /\ last = Call("none", NoUser)

\* The accounts after an instruction, and the record of the call.
Apply(r, call) ==
    /\ market' = r.st.market
    /\ position' = r.st.position
    /\ balance' = r.st.balance
    /\ vault' = r.st.vault
    /\ paid_out' = paid_out + (IF r.st.vault < vault THEN vault - r.st.vault
                                ELSE 0)
    /\ last' = [call EXCEPT !.result = r.result, !.paid = r.paid]

\* The clock oracle: monotonic.
Tick ==
    /\ now < ClockMax
    /\ now' = now + 1
    /\ last' = Call("tick", NoUser)
    /\ UNCHANGED <<market, position, balance, vault, paid_out>>

\* The InitializeMarket accounts: `init` creates the market account (the PDA
\* of creator and mint), which must not exist yet.
InitializeMarket ==
    /\ ~market.exists
    /\ \E u \in Creators, f \in FeeChoices, e \in Timestamps,
          d \in Timestamps, n \in TitleLens :
           Apply(initialize_market(Cur, now, u, f, e, d, n),
                 Call("initialize_market", u))
    /\ UNCHANGED now

PlaceBet ==
    /\ \E u \in Users, s \in BetSide, a \in BetAmounts :
           Apply(place_bet(Cur, now, u, s, a), Call("place_bet", u))
    /\ UNCHANGED now

CloseBetting ==
    /\ Apply(close_betting(Cur, now), Call("close_betting", NoUser))
    /\ UNCHANGED now

Resolve ==
    /\ \E u \in Users, o \in BetSide :
           Apply(resolve(Cur, now, u, o), Call("resolve", u))
    /\ UNCHANGED now

CancelExpired ==
    /\ Apply(cancel_expired(Cur, now), Call("cancel_expired", NoUser))
    /\ UNCHANGED now

\* User u claims with the position account of user q.
Claim ==
    /\ \E u \in Users, q \in Users :
           Apply(claim(Cur, now, u, q), Call("claim", u))
    /\ UNCHANGED now

WithdrawCreatorFee ==
    /\ \E u \in Users :
           Apply(withdraw_creator_fee(Cur, now, u),
                 Call("withdraw_creator_fee", u))
    /\ UNCHANGED now

Next ==
    \/ Tick
    \/ InitializeMarket
    \/ PlaceBet
    \/ CloseBetting
    \/ Resolve
    \/ CancelExpired
    \/ Claim
    \/ WithdrawCreatorFee

Spec == Init /\ [][Next]_vars

\* A market on which its creator has staked U64_MAX - 1 on side A in one
\* place_bet: the state from which the checked additions can fail.
WideMarket ==
    [exists |-> TRUE, creator |-> "alice", fee_bps |-> 0, end_ts |-> 1,
     resolve_deadline_ts |-> 2, staked_a |-> U64_MAX - 1, staked_b |-> 0,
     status |-> "Open", outcome |-> NoSide, creator_fee_withdrawn |-> FALSE,
     title_len |-> MAX_TITLE_LEN]

WideStart ==
    /\ now = 0
    /\ market = WideMarket
    /\ position = [u \in Users |->
                     IF u = "alice"
                     THEN [exists |-> TRUE, owner |-> u, side |-> "A",
                           amount |-> U64_MAX - 1, claimed |-> FALSE]
                     ELSE NoPosition]
    /\ balance = [u \in Users |-> InitBalance]
    /\ vault = U64_MAX - 1
    /\ paid_out = 0
    /\ last = [Call("place_bet", "alice") EXCEPT !.paid = U64_MAX - 1]

\* A stake of half the width of a counter.
LargeStake == 2 ^ (U64Bits - 1)

\* A market with the maximal fee on which alice has staked LargeStake on A
\* in one place_bet: everything still fits, also after further bets.
LargeMarket ==
    [exists |-> TRUE, creator |-> "alice", fee_bps |-> MAX_FEE_BPS,
     end_ts |-> 1, resolve_deadline_ts |-> 2, staked_a |-> LargeStake,
     staked_b |-> 0, status |-> "Open", outcome |-> NoSide,
     creator_fee_withdrawn |-> FALSE, title_len |-> MAX_TITLE_LEN]

LargeStart ==
    /\ now = 0
    /\ market = LargeMarket
    /\ position = [u \in Users |->
                     IF u = "alice"
                     THEN [exists |-> TRUE, owner |-> u, side |-> "A",
                           amount |-> LargeStake, claimed |-> FALSE]
                     ELSE NoPosition]
    /\ balance = [u \in Users |-> InitBalance]
    /\ vault = LargeStake
    /\ paid_out = 0
    /\ last = [Call("place_bet", "alice") EXCEPT !.paid = LargeStake]

\* The fresh program, or a market with one of the large stakes.
InitWide == Init \/ WideStart \/ LargeStart

SpecWide == InitWide /\ [][Next]_vars

\* close_betting and cancel_expired need no signer: once their guards pass
\* somebody calls them; the clock keeps running.
CloseBettingOk == CloseBetting /\ last'.result = "Ok"
CancelExpiredOk == CancelExpired /\ last'.result = "Ok"

LiveSpec ==
    /\ Spec
    /\ WF_vars(Tick)
    /\ WF_vars(CloseBettingOk)
    /\ WF_vars(CancelExpiredOk)

\* ------------------------------------------------------------ properties
Finalized == market.exists /\ market.status \in {"Resolved", "Cancelled"}

\* The accounts other than the clock and the call record.
accounts == <<market, position, balance, vault>>

\* C1 (fund conservation, vault solvency): the vault holds staked_a +
\* staked_b minus everything it has paid out, and neither the claim of an
\* unclaimed position on a finalized market nor the creator's first fee
\* withdrawal on a Resolved market fails for lack of funds in the vault.
C1_VaultSolvent ==
    market.exists =>
        /\ vault = market.staked_a + market.staked_b - paid_out
        /\ \A u \in Users :
               (Finalized /\ position[u].exists /\ ~position[u].claimed)
                   => claim(Cur, now, u, u).result # "InsufficientFunds"
        /\ (market.status = "Resolved" /\ ~market.creator_fee_withdrawn)
               => withdraw_creator_fee(Cur, now, market.creator).result
                      # "InsufficientFunds"

\* C2 (exactly-once settlement): once a position is claimed no step changes
\* it again (claimed is never reset, place_bet never runs on it), and a
\* further claim on it fails with AlreadyClaimed, pays nothing and changes
\* no account.
C2_ExactlyOnce ==
    [][\A u \in Users :
          position[u].claimed =>
              /\ position'[u] = position[u]
              /\ LET r == claim(Cur, now, u, u)
                 IN  /\ r.result = "AlreadyClaimed"
                     /\ r.paid = 0
                     /\ r.st = Cur]_vars

\* A second claim on a claimed position has just been rejected.
C2_Witness ==
    /\ last.op = "claim"
    /\ last.result = "AlreadyClaimed"
    /\ position[last.user].claimed
    /\ paid_out > 0

C4_OutcomeIffResolved ==
    /\ [](market.outcome \in BetSide <=> market.status = "Resolved")
    /\ [][market.outcome # NoSide => market'.outcome = market.outcome]_vars

\* The creator has just resolved the market to side B.
C4_Witness ==
    /\ last.op = "resolve"
    /\ last.result = "Ok"
    /\ market.status = "Resolved"
    /\ market.outcome = "B"

\* The claim of user u on their own position would succeed now.
CanClaim(u) == claim(Cur, now, u, u).result = "Ok"

\* C5 (no funds locked for ever): with the clock running and close_betting
\* and cancel_expired called once enabled, every market becomes Resolved or
\* Cancelled; in a finalized market the owner of every unclaimed position can
\* complete claim; and on a Cancelled market the claim pays the whole stake.
C5_NoLockedFunds ==
    /\ market.exists ~> Finalized
    /\ [](\A u \in Users :
             (Finalized /\ position[u].exists /\ ~position[u].claimed)
                 => /\ CanClaim(u)
                    /\ market.status = "Cancelled"
                           => claim(Cur, now, u, u).paid = position[u].amount)

\* Every market is finalized in the end (the part of C5 that does not
\* depend on the payouts).
C5_EventuallyFinalized == market.exists ~> Finalized

\* total_staked - fee_amount of a market whose sums do not overflow.
Distributable(m) ==
    TotalStaked(m).val - FeeAmount(TotalStaked(m).val, m.fee_bps).val

RECURSIVE SumOfPayouts(_)
\* The sum of the payouts claim computes for the positions of the users S.
SumOfPayouts(S) ==
    IF S = {} THEN 0
    ELSE LET u == CHOOSE x \in S : TRUE
         IN  (IF position[u].exists THEN Payout(market, position[u]).val
              ELSE 0) + SumOfPayouts(S \ {u})

\* C6 (winners share the pool): on a Resolved market a position on the
\* losing side is paid 0 and the payouts of the positions on the winning
\* side add up to at most total - fee.
C6_PayoutsWithinPool ==
    (market.exists /\ market.status = "Resolved") =>
        /\ \A u \in Users :
               (position[u].exists /\ position[u].side # market.outcome)
                   => Payout(market, position[u]) = Val(0)
        /\ SumOfPayouts({u \in Users : position[u].side = market.outcome})
               <= Distributable(market)

\* C7 (order independence): on a Resolved market the fee withdrawal and the
\* claims of the unclaimed positions all succeed in whichever order they are
\* executed, the fee transferred is the same, and so are the accounts after
\* them (stated for every two of them, from every reachable state).
C7_OrderIndependent ==
    (market.exists /\ market.status = "Resolved") =>
        /\ \A u \in Users :
               (position[u].exists /\ ~position[u].claimed
                    /\ ~market.creator_fee_withdrawn) =>
                   LET c  == market.creator
                       w1 == withdraw_creator_fee(Cur, now, c)
                       c1 == claim(w1.st, now, u, u)
                       c2 == claim(Cur, now, u, u)
                       w2 == withdraw_creator_fee(c2.st, now, c)
                   IN  /\ w1.result = "Ok" /\ c1.result = "Ok"
                       /\ c2.result = "Ok" /\ w2.result = "Ok"
                       /\ w1.paid = w2.paid
                       /\ c1.st = w2.st
        /\ \A u, v \in Users :
               (u # v /\ position[u].exists /\ ~position[u].claimed
                    /\ position[v].exists /\ ~position[v].claimed) =>
                   LET a1 == claim(Cur, now, u, u)
                       b1 == claim(a1.st, now, v, v)
                       b2 == claim(Cur, now, v, v)
                       a2 == claim(b2.st, now, u, u)
                   IN  /\ a1.result = "Ok" /\ b1.result = "Ok"
                       /\ b2.result = "Ok" /\ a2.result = "Ok"
                       /\ b1.st = a2.st

\* The aggregate of side s.
Staked(m, s) == IF s = "A" THEN m.staked_a ELSE m.staked_b

OtherSide(s) == IF s = "A" THEN "B" ELSE "A"

\* C8 (place_bet is exact): a place_bet of amount > 0 on an Open market
\* before end_ts, which the bettor can pay and which overflows no counter,
\* succeeds and adds exactly amount to the chosen side's aggregate, to the
\* caller's position and to the vault, takes exactly amount from the
\* bettor's tokens and leaves the other aggregate alone; and every
\* place_bet step that succeeds does exactly that.
C8_PlaceBetExact ==
    /\ [](\A u \in Users, s \in BetSide, a \in BetAmounts :
             (/\ market.exists /\ market.status = "Open"
              /\ now < market.end_ts /\ a > 0 /\ balance[u] >= a
              /\ Staked(market, s) + a <= U64_MAX
              /\ position[u].amount + a <= U64_MAX) =>
                 LET r == place_bet(Cur, now, u, s, a)
                 IN  /\ r.result = "Ok"
                     /\ r.paid = a
                     /\ Staked(r.st.market, s) = Staked(market, s) + a
                     /\ Staked(r.st.market, OtherSide(s))
                            = Staked(market, OtherSide(s))
                     /\ r.st.position[u].amount = position[u].amount + a
                     /\ r.st.vault = vault + a
                     /\ r.st.balance[u] = balance[u] - a)
    /\ [][(last'.op = "place_bet" /\ last'.result = "Ok") =>
              LET u == last'.user
                  a == last'.paid
              IN  /\ a > 0
                  /\ market.status = "Open" /\ now < market.end_ts
                  /\ vault' = vault + a
                  /\ balance'[u] = balance[u] - a
                  /\ \A v \in Users \ {u} : balance'[v] = balance[v]
                  /\ position'[u].amount = position[u].amount + a
                  /\ LET s == position'[u].side
                     IN  /\ Staked(market', s) = Staked(market, s) + a
                         /\ Staked(market', OtherSide(s))
                                = Staked(market, OtherSide(s))]_vars

\* A bet of 6 on B has just succeeded after a bet of 3 on A.
C8_Witness ==
    /\ last.op = "place_bet"
    /\ last.result = "Ok"
    /\ last.paid = 6
    /\ market.staked_a = 3
    /\ market.staked_b = 6
    /\ vault = 9

\* C9 (errors change nothing): a step whose instruction returned an error
\* changes no account; and place_bet fails with MarketNotOpen off an Open
\* market, BettingClosed from end_ts on, InvalidAmount for amount 0 and
\* Overflow when a counter would pass U64_MAX, each time changing nothing.
C9_ErrorsChangeNothing ==
    /\ [][last'.result # "Ok" => UNCHANGED <<accounts, paid_out>>]_vars
    /\ [](market.exists =>
             \A u \in Users, s \in BetSide, a \in BetAmounts :
                 LET r    == place_bet(Cur, now, u, s, a)
                     open == market.status = "Open"
                     inTime == now < market.end_ts
                 IN  /\ ~open => r.result = "MarketNotOpen"
                     /\ (open /\ ~inTime) => r.result = "BettingClosed"
                     /\ (open /\ inTime /\ a = 0)
                            => r.result = "InvalidAmount"
                     /\ (/\ open /\ inTime /\ a > 0 /\ balance[u] >= a
                         /\ \/ Staked(market, s) + a > U64_MAX
                            \/ position[u].amount + a > U64_MAX)
                            => r.result = "Overflow"
                     /\ r.result # "Ok" => r.st = Cur)

\* A place_bet has just failed with Overflow after its transfer was issued.
C9_Witness ==
    /\ last.op = "place_bet"
    /\ last.result = "Overflow"
    /\ market.staked_a = U64_MAX - 1

\* C10 (resolve authority): on a PendingResolve market resolve fails with
\* UnauthorizedResolver for a caller other than the creator, with
\* ResolutionDeadlinePassed for the creator from resolve_deadline_ts on, and
\* otherwise sets the outcome and the status Resolved; no resolve succeeds
\* for a non-creator or at now >= resolve_deadline_ts.
C10_ResolveAuthority ==
    /\ (market.exists /\ market.status = "PendingResolve") =>
           \A u \in Users, o \in BetSide :
               LET r == resolve(Cur, now, u, o)
                   inTime == now < market.resolve_deadline_ts
               IN  /\ u # market.creator
                          => r.result = "UnauthorizedResolver"
                   /\ (u = market.creator /\ ~inTime)
                          => r.result = "ResolutionDeadlinePassed"
                   /\ (u = market.creator /\ inTime)
                          => /\ r.result = "Ok"
                             /\ r.st.market.status = "Resolved"
                             /\ r.st.market.outcome = o
    /\ (last.op = "resolve" /\ last.result = "Ok") =>
           /\ last.user = market.creator
           /\ now < market.resolve_deadline_ts

\* C11 (cancel_expired): on a PendingResolve market cancel_expired fails with
\* ResolutionNotExpired before resolve_deadline_ts and from then on succeeds
\* (it takes no signer, so for any caller), setting the status Cancelled and
\* leaving the outcome absent and every other account as it was; on any
\* other status it fails with MarketNotPendingResolve.
C11_CancelExpired ==
    market.exists =>
        LET r == cancel_expired(Cur, now)
        IN  /\ market.status # "PendingResolve"
                  => r.result = "MarketNotPendingResolve" /\ r.st = Cur
            /\ (market.status = "PendingResolve"
                    /\ now < market.resolve_deadline_ts)
                  => r.result = "ResolutionNotExpired" /\ r.st = Cur
            /\ (market.status = "PendingResolve"
                    /\ now >= market.resolve_deadline_ts)
                  => /\ r.result = "Ok"
                     /\ r.st = [Cur EXCEPT !.market.status = "Cancelled"]
                     /\ r.st.market.outcome = NoSide
                     /\ r.st.market.staked_a = market.staked_a
                     /\ r.st.market.staked_b = market.staked_b
            /\ (last.op = "cancel_expired" /\ last.result = "Ok")
                  => /\ market.status = "Cancelled"
                     /\ market.outcome = NoSide
                     /\ now >= market.resolve_deadline_ts

\* A market with stakes has just been cancelled at the deadline itself.
C11_Witness ==
    /\ last.op = "cancel_expired"
    /\ last.result = "Ok"
    /\ market.status = "Cancelled"
    /\ now = market.resolve_deadline_ts
    /\ market.staked_a > 0

\* C12 (close_betting): on an Open market close_betting fails with
\* BettingNotEnded before end_ts and from end_ts on succeeds, writing only
\* status = PendingResolve; on every other status it fails with
\* MarketNotOpen whatever the time. A successful call leaves the market not
\* Open and no step makes it Open again, so it succeeds at most once.
C12_CloseBetting ==
    /\ [](market.exists =>
            LET r == close_betting(Cur, now)
            IN  /\ (market.status = "Open" /\ now < market.end_ts)
                      => r.result = "BettingNotEnded" /\ r.st = Cur
                /\ (market.status = "Open" /\ now >= market.end_ts)
                      => /\ r.result = "Ok"
                         /\ r.st = [Cur EXCEPT
                                      !.market.status = "PendingResolve"]
                /\ market.status # "Open"
                      => \A t \in 0..ClockMax :
                            /\ close_betting(Cur, t).result = "MarketNotOpen"
                            /\ close_betting(Cur, t).st = Cur)
    /\ [][/\ (last'.op = "close_betting" /\ last'.result = "Ok")
                => /\ market.status = "Open"
                   /\ market'.status = "PendingResolve"
                   /\ now >= market.end_ts
          /\ (market.exists /\ market.status # "Open")
                => market'.status # "Open"]_vars

\* Betting has just been closed at end_ts itself on a market with stakes.
C12_Witness ==
    /\ last.op = "close_betting"
    /\ last.result = "Ok"
    /\ market.status = "PendingResolve"
    /\ now = market.end_ts
    /\ market.staked_a + market.staked_b > 0

\* The sum of the stakes of the positions in us that have been claimed.
RECURSIVE ClaimedAmounts(_)
ClaimedAmounts(us) ==
    IF us = {} THEN 0
    ELSE LET u == CHOOSE x \in us : TRUE
         IN  (IF position[u].exists /\ position[u].claimed
              THEN position[u].amount ELSE 0) + ClaimedAmounts(us \ {u})

\* C13 (refund on cancellation): on a Cancelled market claim pays a position
\* exactly its amount, whatever its side and with no fee deducted, and once
\* every position has claimed the total paid out is staked_a + staked_b and
\* the vault is empty.
C13_CancelledRefund ==
    (market.exists /\ market.status = "Cancelled") =>
        /\ \A u \in Users :
              (position[u].exists /\ ~position[u].claimed) =>
                  LET r == claim(Cur, now, u, u)
                  IN  /\ \A s \in BetSide :
                            Payout(market, [position[u] EXCEPT !.side = s])
                               = Val(position[u].amount)
                      /\ r.result = "Ok"
                      /\ r.paid = position[u].amount
                      /\ r.st.vault = vault - position[u].amount
                      /\ r.st.balance[u] = balance[u] + position[u].amount
                      /\ r.st.position[u].claimed
        /\ (last.op = "claim" /\ last.result = "Ok")
              => last.paid = position[last.user].amount
        /\ paid_out = ClaimedAmounts(Users)
        /\ vault = market.staked_a + market.staked_b - paid_out
        /\ (\A u \in Users : position[u].exists => position[u].claimed)
              => /\ paid_out = market.staked_a + market.staked_b
                 /\ vault = 0

\* Both users staked different amounts on a market with a fee, the market
\* was cancelled and both have been refunded.
C13_Witness ==
    /\ market.exists
    /\ market.status = "Cancelled"
    /\ market.fee_bps > 0
    /\ market.staked_a > 0 /\ market.staked_b > 0
    /\ \A u \in Users : position[u].exists /\ position[u].claimed
    /\ \E u, v \in Users : position[u].amount > position[v].amount
    /\ paid_out = market.staked_a + market.staked_b
    /\ vault = 0

\* The worked example: fee_bps = 1000, 600 staked on A by alice alone, 400
\* on B by bob, outcome A.
WorkedMarket ==
    [exists |-> TRUE, creator |-> "alice", fee_bps |-> 1000, end_ts |-> 1,
     resolve_deadline_ts |-> 2, staked_a |-> 600, staked_b |-> 400,
     status |-> "Resolved", outcome |-> "A",
     creator_fee_withdrawn |-> FALSE, title_len |-> MAX_TITLE_LEN]

WorkedAccounts ==
    Accounts(WorkedMarket,
             [u \in Users |->
                [exists |-> TRUE, owner |-> u,
                 side |-> IF u = "alice" THEN "A" ELSE "B",
                 amount |-> IF u = "alice" THEN 600 ELSE 400,
                 claimed |-> FALSE]],
             [u \in Users |-> 0], 1000)

\* Fee 100, payout 900 and an empty vault after the fee withdrawal and the
\* winner's claim.
WorkedExample ==
    LET w == withdraw_creator_fee(WorkedAccounts, 1, "alice")
        c == claim(w.st, 1, "alice", "alice")
    IN  /\ FeeAmount(1000, WorkedMarket.fee_bps) = Val(100)
        /\ w.result = "Ok" /\ w.paid = 100
        /\ Payout(WorkedMarket, WorkedAccounts.position["alice"]) = Val(900)
        /\ c.result = "Ok" /\ c.paid = 900
        /\ c.st.vault = 0

\* floor(distributable * amount / winning_total), computed without narrowing.
ExactPayout(m, amount) ==
    LET total == m.staked_a + m.staked_b
        fee == (total * m.fee_bps) \div BPS_DENOMINATOR
        winning_total == IF m.outcome = "A" THEN m.staked_a ELSE m.staked_b
    IN  IF winning_total = 0 THEN 0
        ELSE ((total - fee) * amount) \div winning_total

\* C14 (payout formula): in a Resolved market whose stakes fit 64 bits the
\* payout claim computes for a winning position is exactly
\* floor(distributable * amount / winning_total), 0 when winning_total = 0,
\* with nothing lost in the narrowing to 64 bits; and the worked example
\* gives fee 100, payout 900, residual 0.
C14_PayoutFormula ==
    /\ WorkedExample
    /\ (/\ market.exists
        /\ market.status = "Resolved"
        /\ market.staked_a + market.staked_b <= U64_MAX)
          => \A u \in Users :
                (position[u].exists /\ position[u].side = market.outcome)
                   => Payout(market, position[u])
                         = Val(ExactPayout(market, position[u].amount))

\* C15 (fee withdrawal): withdraw_creator_fee succeeds only on a Resolved
\* market, for the creator, with creator_fee_withdrawn false; otherwise it
\* fails with MarketNotResolved, UnauthorizedWithdrawal or
\* FeeAlreadyWithdrawn respectively and transfers nothing.
C15_FeeWithdrawal ==
    market.exists =>
        \A u \in Users :
            LET r == withdraw_creator_fee(Cur, now, u)
            IN  /\ r.result = "Ok"
                      => /\ market.status = "Resolved"
                         /\ u = market.creator
                         /\ ~market.creator_fee_withdrawn
                /\ r.result # "Ok" => r.st = Cur /\ r.paid = 0
                /\ (market.status # "Resolved" /\ u = market.creator)
                      => r.result = "MarketNotResolved"
                /\ (market.status # "Resolved" /\ u # market.creator)
                      => r.result \in {"MarketNotResolved",
                                       "UnauthorizedWithdrawal"}
                /\ (market.status = "Resolved" /\ u # market.creator)
                      => r.result = "UnauthorizedWithdrawal"
                /\ (/\ market.status = "Resolved"
                    /\ u = market.creator
                    /\ market.creator_fee_withdrawn)
                      => r.result = "FeeAlreadyWithdrawn"

\* The part of C15 about money: the fee leaves the vault only in a
\* successful withdraw_creator_fee by the creator on a Resolved market, which
\* sets creator_fee_withdrawn for good, so at most once and never on an
\* Open, PendingResolve or Cancelled market.
C15_FeeAtMostOnce ==
    /\ [][/\ (last'.op = "withdraw_creator_fee" /\ last'.result = "Ok")
                => /\ market.status = "Resolved"
                   /\ last'.user = market.creator
                   /\ ~market.creator_fee_withdrawn
                   /\ market'.creator_fee_withdrawn
                   /\ FeeAmount(TotalStaked(market).val, market.fee_bps)
                         = Val(last'.paid)
          /\ (last'.op = "withdraw_creator_fee" /\ last'.result # "Ok")
                => UNCHANGED <<accounts, paid_out>>
          /\ market.creator_fee_withdrawn
                => market'.creator_fee_withdrawn]_vars
    /\ [](market.creator_fee_withdrawn => market.status = "Resolved")

\* C16 (initialize_market): the call succeeds exactly when fee_bps <= 2000,
\* the title has at most 64 bytes, end_ts > now and resolve_deadline_ts >
\* end_ts, creating an Open market with zero stakes, no outcome and
\* creator_fee_withdrawn false; otherwise it fails with FeeTooHigh,
\* TitleTooLong, EndTimeInPast or InvalidDeadline respectively and creates
\* no market. Hence every market has fee_bps <= 2000 and
\* resolve_deadline_ts > end_ts.
C16_InitializeMarket ==
    /\ ~market.exists =>
          \A u \in Creators, fee_bps \in FeeChoices, title_len \in TitleLens,
             end_ts \in Timestamps, resolve_deadline_ts \in Timestamps :
              LET r == initialize_market(Cur, now, u, fee_bps, end_ts,
                                         resolve_deadline_ts, title_len)
                  fee_ok == fee_bps <= MAX_FEE_BPS
                  title_ok == title_len <= MAX_TITLE_LEN
                  end_ok == end_ts > now
                  deadline_ok == resolve_deadline_ts > end_ts
              IN  /\ r.result = "Ok"
                        <=> (fee_ok /\ title_ok /\ end_ok /\ deadline_ok)
                  /\ r.result = "Ok" =>
                        r.st = [Cur EXCEPT !.market =
                                  [exists |-> TRUE, creator |-> u,
                                   fee_bps |-> fee_bps, end_ts |-> end_ts,
                                   resolve_deadline_ts |-> resolve_deadline_ts,
                                   staked_a |-> 0, staked_b |-> 0,
                                   status |-> "Open", outcome |-> NoSide,
                                   creator_fee_withdrawn |-> FALSE,
                                   title_len |-> title_len]]
                  /\ r.result # "Ok" => r.st = Cur /\ ~r.st.market.exists
                  /\ ~fee_ok => r.result = "FeeTooHigh"
                  /\ (fee_ok /\ ~title_ok) => r.result = "TitleTooLong"
                  /\ (fee_ok /\ title_ok /\ ~end_ok)
                        => r.result = "EndTimeInPast"
                  /\ (fee_ok /\ title_ok /\ end_ok /\ ~deadline_ok)
                        => r.result = "InvalidDeadline"
    /\ market.exists =>
          /\ market.fee_bps <= MAX_FEE_BPS
          /\ market.title_len <= MAX_TITLE_LEN
          /\ market.resolve_deadline_ts > market.end_ts
    /\ (last.op = "initialize_market" /\ last.result = "Ok")
          => /\ market.status = "Open"
             /\ market.staked_a = 0 /\ market.staked_b = 0
             /\ market.outcome = NoSide
             /\ ~market.creator_fee_withdrawn
             /\ market.end_ts > now
    /\ (last.op = "initialize_market" /\ last.result # "Ok")
          => ~market.exists

\* A market with the maximal fee has just been created.
C16_Witness ==
    /\ last.op = "initialize_market"
    /\ last.result = "Ok"
    /\ market.exists
    /\ market.fee_bps = MAX_FEE_BPS
    /\ market.status = "Open"
    /\ market.resolve_deadline_ts > market.end_ts
    /\ market.end_ts > now

\* The market m as resolve would leave it with the given outcome.
Settled(m, outcome) ==
    [m EXCEPT !.status = "Resolved", !.outcome = outcome]

\* The accounts after u bets x on A and then y on B, both successfully.
AfterAThenB(u, x, y) ==
    place_bet(place_bet(Cur, now, u, "A", x).st, now, u, "B", y)

BothBetsOk(u, x, y) ==
    /\ x > 0 /\ y > 0
    /\ place_bet(Cur, now, u, "A", x).result = "Ok"
    /\ AfterAThenB(u, x, y).result = "Ok"

\* What holds of a bet on A followed by a bet on B: the label is B, the
\* amount and the aggregates have accumulated, and settlement pays the
\* position as claim pays a position holding all of it on B.
SideOverwritten(u, x, y) ==
    LET m2 == AfterAThenB(u, x, y).st.market
        p2 == AfterAThenB(u, x, y).st.position[u]
    IN  /\ p2.side = "B"
        /\ p2.amount = position[u].amount + x + y
        /\ ~position[u].exists => p2.amount = x + y
        /\ m2.staked_a = market.staked_a + x
        /\ m2.staked_b = market.staked_b + y
        /\ Payout(Settled(m2, "A"), p2) = Val(0)
        /\ Payout(Settled(m2, "B"), p2)
              = WinningPayout(Settled(m2, "B"), p2.amount)

\* C17 (side overwrite): after one user bets x > 0 on A and then y > 0 on B
\* in an Open market, the position has side B and the accumulated amount,
\* staked_a has grown by x and staked_b by y, and at settlement the position
\* is paid floor(distributable * amount / staked_b) if the outcome is B and 0
\* if it is A.
C17_SideOverwrite ==
    market.exists =>
        \A u \in Users, x \in BetAmounts, y \in BetAmounts :
            BothBetsOk(u, x, y) =>
                LET m2 == AfterAThenB(u, x, y).st.market
                    p2 == AfterAThenB(u, x, y).st.position[u]
                IN  /\ SideOverwritten(u, x, y)
                    /\ m2.staked_a + m2.staked_b <= U64_MAX
                          => Payout(Settled(m2, "B"), p2)
                                = Val(ExactPayout(Settled(m2, "B"),
                                                  p2.amount))

\* The part of C17 that holds for every size of stake.
C17_LabelAndAmounts ==
    market.exists =>
        \A u \in Users, x \in BetAmounts, y \in BetAmounts :
            BothBetsOk(u, x, y) => SideOverwritten(u, x, y)

\* The stakes: the two aggregates and each position's existence, side and
\* amount.
Stakes ==
    <<market.staked_a, market.staked_b,
      [u \in Users |-> <<position[u].exists, position[u].side,
                         position[u].amount>>]>>

\* The parameters of a market fixed by initialize_market.
Terms == <<market.fee_bps, market.end_ts, market.resolve_deadline_ts>>

\* C18 (stakes are frozen): the aggregates and the positions' sides and
\* amounts change only in a successful place_bet, which needs an Open market
\* and now < end_ts; close_betting, resolve, cancel_expired, claim and
\* withdraw_creator_fee leave staked_a, staked_b, fee_bps, end_ts,
\* resolve_deadline_ts and every position amount unchanged; no amount ever
\* decreases.
C18_StakesFrozen ==
    [][market.exists =>
          /\ Terms' = Terms
          /\ Stakes' # Stakes
                => /\ last'.op = "place_bet"
                   /\ last'.result = "Ok"
                   /\ market.status = "Open"
                   /\ now < market.end_ts
          /\ last'.op \in {"close_betting", "resolve", "cancel_expired",
                           "claim", "withdraw_creator_fee"}
                => Stakes' = Stakes
          /\ market.status # "Open" => Stakes' = Stakes
          /\ market'.staked_a >= market.staked_a
          /\ market'.staked_b >= market.staked_b
          /\ \A u \in Users : position'[u].amount >= position[u].amount]_vars

\* A settled market: a winner has been paid, the fee and the stakes are
\* still recorded in full.
C18_Witness ==
    /\ market.status = "Resolved"
    /\ last.op = "claim"
    /\ last.result = "Ok"
    /\ last.paid > 0
    /\ position[last.user].amount > 0
    /\ market.staked_a > 0 /\ market.staked_b > 0
    /\ market.creator_fee_withdrawn

\* The creator's resolve, with some outcome, passes every guard.
ResolveEnabled ==
    \E o \in BetSide : resolve(Cur, now, market.creator, o).result = "Ok"

\* cancel_expired passes every guard.
CancelEnabled == cancel_expired(Cur, now).result = "Ok"

\* C19 (hand-over at the deadline): in PendingResolve exactly one of the
\* creator's resolve (iff now < resolve_deadline_ts) and cancel_expired (iff
\* now >= resolve_deadline_ts) passes its guards; the clock never goes back
\* and the deadline never moves, so once cancel_expired is enabled no resolve
\* succeeds any more, and a market whose betting is closed at or after the
\* deadline is never Resolved.
C19_HandOver ==
    /\ []((market.exists /\ market.status = "PendingResolve") =>
            /\ ResolveEnabled <=> now < market.resolve_deadline_ts
            /\ CancelEnabled <=> now >= market.resolve_deadline_ts
            /\ ResolveEnabled <=> ~CancelEnabled
            /\ \A u \in Users, o \in BetSide :
                  resolve(Cur, now, u, o).result = "Ok" => ~CancelEnabled)
    /\ [][/\ now' >= now
          /\ market.exists
                => market'.resolve_deadline_ts = market.resolve_deadline_ts
          /\ (/\ market.exists
              /\ market.status \in {"Open", "PendingResolve"}
              /\ now >= market.resolve_deadline_ts)
                => /\ market'.status # "Resolved"
                   /\ ~(last'.op = "resolve" /\ last'.result = "Ok")
          /\ (last'.op = "resolve" /\ last'.result = "Ok")
                => now < market.resolve_deadline_ts]_vars

\* Betting has just been closed at the deadline: cancel_expired is enabled
\* and the creator's resolve is not.
C19_Witness ==
    /\ market.status = "PendingResolve"
    /\ last.op = "close_betting"
    /\ last.result = "Ok"
    /\ now >= market.resolve_deadline_ts
    /\ CancelEnabled
    /\ ~ResolveEnabled
    /\ market.staked_b > 0

\* The part of C20 about place_bet: the counters stay within 64 bits, and a
\* place_bet that passes the guards and would push the chosen aggregate or
\* the position amount past U64_MAX fails with Overflow and changes nothing.
C20_PlaceBetNoWrap ==
    /\ market.staked_a <= U64_MAX
    /\ market.staked_b <= U64_MAX
    /\ \A u \in Users : position[u].amount <= U64_MAX
    /\ market.exists =>
          \A u \in Users, side \in BetSide, amount \in BetAmounts :
              LET r == place_bet(Cur, now, u, side, amount)
                  fits == /\ Staked(market, side) + amount <= U64_MAX
                          /\ position[u].amount + amount <= U64_MAX
              IN  (/\ place_bet_require(market, now, amount) = "Ok"
                   /\ balance[u] >= amount)
                     => /\ fits => r.result = "Ok"
                        /\ ~fits => r.result = "Overflow" /\ r.st = Cur

\* The part of C20 about settlement: the total, the fee and the payout of a
\* position of a Resolved market are each the exact value or the error
\* Overflow.
SettlementExact ==
    (market.exists /\ market.status = "Resolved") =>
        LET total == TotalStaked(market)
            sum == market.staked_a + market.staked_b
            fee == FeeAmount(sum, market.fee_bps)
        IN  /\ total = Val(sum) \/ total = Err("Overflow")
            /\ fee = Val((sum * market.fee_bps) \div BPS_DENOMINATOR)
                  \/ fee = Err("Overflow")
            /\ \A u \in Users :
                  position[u].exists =>
                      LET pay == Payout(market, position[u])
                          exact == IF position[u].side = market.outcome
                                   THEN ExactPayout(market,
                                                    position[u].amount)
                                   ELSE 0
                      IN  pay = Val(exact) \/ pay = Err("Overflow")

\* C20 (no silent wrap): staked_a, staked_b and position.amount never wrap,
\* a place_bet that would overflow one of them fails with Overflow changing
\* nothing, and the settlement sums and narrowing casts give the exact value
\* or fail with Overflow, never a wrapped or truncated amount.
C20_NoSilentWrap == C20_PlaceBetNoWrap /\ SettlementExact
====
